---- MODULE Spec2Model ----
\* A state-machine model of the bluetooth-classic SPP sessions:
\*   WinrtSession (src/src/windows/session.rs): the connect pipeline raced
\*   against a timer, and the poll_read / poll_write adapter over single-shot
\*   native operations;
\*   MockSession (src/src/mock/session.rs): the in-memory double.
\* The native layer (sockets, asynchronous operations) is the environment: its
\* outcomes are nondeterministic inputs of the actions.
EXTENDS Integers, Sequences, FiniteSets, TLC

\* ------------------------------------------------------------------ bounds
MaxDuration == 2    \* timeouts passed by the caller range over 1..MaxDuration
MaxCap == 2         \* caller buffer capacities / slice lengths range over 0..MaxCap
MaxOps == 2         \* native read/write operations in flight at the same time
MaxBuf == 2         \* bytes the in-memory double may hold

Durations == 1..MaxDuration
NoTimeout == 0
Caps == 0..MaxCap
\* names of socket handles: the held StreamSocket and the one replacing it
SocketIds == {0, 1}
\* an empty slot (Option::None), and a slot holding the future of an operation
None == [st |-> "none", sock |-> 0, cap |-> 0, n |-> 0]
Bytes == {1, 2}

\* common/device.rs: SPP_UUID and one caller-chosen service identifier
SPP_UUID == "00001101-0000-1000-8000-00805F9B34FB"
Uuids == {SPP_UUID, "custom-uuid"}
\* BluetoothDevice values: empty() and one real peer
EmptyDevice == [name |-> "", addr |-> 0]
Devices == {EmptyDevice, [name |-> "Test", addr |-> 1]}

\* ------------------------------------------------------ BluetoothError / Result
NoResult == [kind |-> "none", dur |-> 0, msg |-> ""]
OkResult == [kind |-> "Ok", dur |-> 0, msg |-> ""]
DeviceNotFound == [kind |-> "DeviceNotFound", dur |-> 0, msg |-> ""]
DeviceNotPairing == [kind |-> "DeviceNotPairing", dur |-> 0, msg |-> ""]
ServiceNotFound == [kind |-> "ServiceNotFound", dur |-> 0, msg |-> ""]
NotConnected == [kind |-> "NotConnected", dur |-> 0, msg |-> ""]
TimedOut(d) == [kind |-> "TimedOut", dur |-> d, msg |-> ""]
RuntimeError(m) == [kind |-> "RuntimeError", dur |-> 0, msg |-> m]

\* utils.rs wrappers: `ok` is whether the provider call succeeded, `call` names
\* the provider call (its diagnostic text), `error` the fixed replacement error.
winrt_error_wrap(ok, call) == IF ok THEN OkResult ELSE RuntimeError(call)
winrt_error_wrap_with_error(ok, error) == IF ok THEN OkResult ELSE error
winrt_none_error_wrap_with_error(ok, error) == IF ok THEN OkResult ELSE error
\* the asynchronous wrappers map a failed start and a failed completion alike
winrt_async(ok, call) == IF ok THEN OkResult ELSE RuntimeError(call)
winrt_async_with_error(ok, error) == IF ok THEN OkResult ELSE error
winrt_async_action(ok, call) == IF ok THEN OkResult ELSE RuntimeError(call)

VARIABLES
    impl,            \* which session type this run drives: "winrt" or "mock"
    \* WinrtSession fields
    uuid, device, socket, ready, read_future, write_future,
    \* native layer
    openSockets,     \* socket handles created and not yet closed
    orphans,         \* per direction, the number of native operations still
                     \* outstanding whose future was dropped
    \* the connect call in progress / last made
    pc,              \* "idle", the suspension point of the pipeline, "new" when
                     \* the constructor did not return, "consumed" after
                     \* into_device
    \* the caller's latest call: a connect (the next nine, kept until the
    \* caller's next call) or a poll (lastPoll, kept until the next connect)
    call,            \* arguments of the connect call, and whether it is one of
                     \* the blocking entry points or an async method polled by
                     \* the caller
    stagesStarted,   \* stages the current attempt has started, in order
    stagesOk,        \* stages the current attempt has completed successfully
    failedStage,     \* stage whose provider call failed in this attempt ("" if none)
    stageError,      \* the error that the failing stage produced
    retry,           \* the attempt before this one ended by its timer
    timerFired,      \* the timer of the latest attempt fired before the pipeline ended
    abandonedAt,     \* suspension point at which the pipeline was dropped (by the
                     \* timer or by the caller)
    pipeResult,      \* result of connect_by_uuid_async (NoResult while running / dropped)
    callResult,      \* result returned to the caller of the connect entry point
    lastPoll,        \* the last poll_* call and what it returned
    panicked,        \* a call panicked (unwrap on Err, put_slice overflow)
    \* MockSession fields
    m_uuid, m_device, m_need_pairing, blocked, buffer, position, is_ready,
    delivered,       \* all bytes the double's completed reads handed to the caller
    \* the address codec (common/mac.rs), exercised on its own
    codec            \* the text / value given, and what the codec made of it

winrtVars == <<uuid, device, socket, ready, read_future, write_future>>
nativeVars == <<openSockets, orphans>>
attemptVars == <<call, stagesStarted, stagesOk, failedStage, stageError,
                 abandonedAt, retry, pipeResult, callResult>>
callVars == <<pc, attemptVars, timerFired>>
mockVars == <<m_uuid, m_device, m_need_pairing, blocked, buffer, position, is_ready,
              delivered>>
sessionVars == <<impl, winrtVars, nativeVars, callVars, lastPoll, panicked, mockVars>>
vars == <<sessionVars, codec>>

\* ------------------------------------------------------- common/mac.rs
\* A text is a sequence of one-character strings. A u64 is kept as two 24-bit
\* limbs [hi, lo] (value = hi * 2^24 + lo): 48 bits, the range the codec
\* produces and prints.
Limb == 16777216
MacDigits == 12
MacOctets == 6
UpperHex == <<"0", "1", "2", "3", "4", "5", "6", "7", "8", "9",
              "A", "B", "C", "D", "E", "F">>
LowerHex == <<"0", "1", "2", "3", "4", "5", "6", "7", "8", "9",
              "a", "b", "c", "d", "e", "f">>

\* char::to_digit(16): the value of a hexadecimal digit of either case, else -1
DigitValue(c) ==
    IF \E i \in 1..16 : UpperHex[i] = c
    THEN (CHOOSE i \in 1..16 : UpperHex[i] = c) - 1
    ELSE IF \E i \in 1..16 : LowerHex[i] = c
    THEN (CHOOSE i \in 1..16 : LowerHex[i] = c) - 1
    ELSE -1

NoneU64 == [some |-> FALSE, hi |-> 0, lo |-> 0]
SomeU64(hi, lo) == [some |-> TRUE, hi |-> hi, lo |-> lo]

\* value * 16 + d on the two limbs
ShiftIn(v, d) ==
    LET low == v.lo * 16 + d
    IN  [v EXCEPT !.lo = low % Limb, !.hi = (v.hi * 16 + low \div Limb) % Limb]

RECURSIVE ParseHex(_, _)
ParseHex(digits, acc) ==
    IF digits = <<>> THEN acc
    ELSE ParseHex(Tail(digits), ShiftIn(acc, DigitValue(Head(digits))))

\* u64::from_str_radix(s, 16): an optional leading "+", then at least one
\* digit and digits only (at most 12 here, so no overflow)
from_str_radix(str) ==
    LET digits == IF str # <<>> /\ Head(str) = "+" THEN Tail(str) ELSE str
    IN  IF digits = <<>> \/ \E i \in DOMAIN digits : DigitValue(digits[i]) < 0
        THEN NoneU64
        ELSE ParseHex(digits, SomeU64(0, 0))

\* mac.rs 14-24
mac_string_to_u64(addr) ==
    LET cleaned == SelectSeq(addr, LAMBDA c : c # ":")
    IN  IF Len(cleaned) # MacDigits THEN NoneU64 ELSE from_str_radix(cleaned)

\* addr.to_be_bytes(): the eight bytes, most significant first (the two
\* above bit 47 are zero for a value of two limbs)
to_be_bytes(addr) ==
    << 0, 0,
       (addr.hi \div 65536) % 256, (addr.hi \div 256) % 256, addr.hi % 256,
       (addr.lo \div 65536) % 256, (addr.lo \div 256) % 256, addr.lo % 256 >>

\* format!("{:02X}", b)
FormatOctet(b) == <<UpperHex[(b \div 16) + 1], UpperHex[(b % 16) + 1]>>

RECURSIVE JoinColon(_)
JoinColon(parts) ==
    IF parts = <<>> THEN <<>>
    ELSE IF Len(parts) = 1 THEN parts[1]
    ELSE parts[1] \o <<":">> \o JoinColon(Tail(parts))

\* (mutant) the first six of the eight bytes are printed: skip(2) is missing
mac_u64_to_string_without_skip(addr) ==
    LET bytes == to_be_bytes(addr)
    IN  JoinColon([i \in 1..MacOctets |-> FormatOctet(bytes[i])])

\* mac.rs 1-12
mac_u64_to_string(addr) ==
    LET bytes == to_be_bytes(addr)
    IN  JoinColon([i \in 1..MacOctets |-> FormatOctet(bytes[i + 2])])

\* Inputs given to the codec: texts of five or six octets drawn from
\* OctetTexts (upper case, lower case, one that is not hexadecimal), and
\* 48-bit values whose bytes are drawn from ByteValues.
OctetTexts == {<<"0", "0">>, <<"7", "D">>, <<"B", "0">>, <<"d", "6">>, <<"G", "0">>}
ByteValues == {0, 125, 176, 214}
MacTexts == {JoinColon(o) : o \in [1..MacOctets -> OctetTexts]
                                \cup [1..(MacOctets - 1) -> OctetTexts]}
LimbValues == {a * 65536 + b * 256 + c : a \in ByteValues, b \in {0, 214},
                                          c \in {0, 125}}
MacValues == {SomeU64(h, l) : h \in LimbValues, l \in LimbValues}
NoCodec == [pc |-> "idle", given |-> "", text |-> <<>>, value |-> NoneU64,
            out |-> <<>>]

NoCall == [device |-> EmptyDevice, uuid |-> SPP_UUID,
           need_pairing |-> FALSE, timeout |-> NoTimeout, entry |-> "blocking"]
\* The caller makes a call that is not a connect: the record of the last
\* connect call is cleared.
ClearAttempt ==
    /\ call' = NoCall
    /\ stagesStarted' = <<>> /\ stagesOk' = <<>>
    /\ failedStage' = "" /\ stageError' = NoResult
    /\ abandonedAt' = "" /\ retry' = FALSE
    /\ pipeResult' = NoResult /\ callResult' = NoResult
NoPoll == [fn |-> "none", res |-> "none", n |-> 0, failed |-> FALSE]
PollRecord(fn, res, n, failed) ==
    [fn |-> fn, res |-> res, n |-> n, failed |-> failed]

\* WinrtSession::new / MockSession::new
\* WinrtSession::new / MockSession::new. WinrtSession::new unwraps
\* StreamSocket::new(): when the provider fails it the constructor panics and
\* there is no session (pc = "new", no socket), otherwise the session holds
\* the new socket.
SessionInit ==
    /\ impl \in {"winrt", "mock"}
    /\ panicked \in (IF impl = "winrt" THEN BOOLEAN ELSE {FALSE})
    /\ uuid = SPP_UUID /\ device = EmptyDevice
    /\ socket = 0 /\ ready = FALSE
    /\ read_future = None /\ write_future = None
    /\ openSockets = (IF panicked THEN {} ELSE {0})
    /\ orphans = [read |-> 0, write |-> 0]
    /\ pc = (IF panicked THEN "new" ELSE "idle") /\ call = NoCall
    /\ stagesStarted = <<>> /\ stagesOk = <<>>
    /\ failedStage = "" /\ stageError = NoResult
    /\ timerFired = FALSE /\ retry = FALSE /\ abandonedAt = ""
    /\ pipeResult = NoResult /\ callResult = NoResult
    /\ lastPoll = NoPoll
    /\ m_uuid = SPP_UUID /\ m_device = EmptyDevice
    /\ m_need_pairing = TRUE /\ blocked = FALSE
    /\ buffer = <<>> /\ position = 0 /\ is_ready = FALSE
    /\ delivered = <<>>

Init == SessionInit /\ codec = NoCodec

\* ------------------------------------------------ the connect entry points
AwaitPcs == {"await_find", "await_fromid", "await_pair", "await_services",
             "await_connect", "mock_sleep"}

\* (mutant) the error carries a default duration instead of the one passed in
connect_by_uuid_timeout_result_default_duration(race, timeout) ==
    IF race.elapsed THEN TimedOut(NoTimeout)
    ELSE IF race.inner # OkResult THEN race.inner
    ELSE OkResult

\* (mutant) the `else if let Ok(Err(err))` arm is missing
connect_by_uuid_timeout_result_drops_error(race, timeout) ==
    IF race.elapsed THEN TimedOut(timeout) ELSE OkResult

\* connect_by_uuid_timeout, after block_on: `race` is what time::timeout gave:
\* elapsed (Err(Elapsed)) or the pipeline's own result.
connect_by_uuid_timeout_result(race, timeout) ==
    IF race.elapsed THEN TimedOut(timeout)
    ELSE IF race.inner # OkResult THEN race.inner
    ELSE OkResult

\* What the entry point of call `c` returns when the pipeline ended with `res`.
EntryResult(c, res) ==
    IF c.timeout = NoTimeout THEN res
    ELSE connect_by_uuid_timeout_result([elapsed |-> FALSE, inner |-> res], c.timeout)

\* ------------------------------------------ effects of a pipeline segment
\* One action runs the pipeline from one suspension point to the next (or to
\* its return). Its effect on the attempt: where it stops, the result if it
\* returned, the stages it started / completed, the stage that failed.
Suspend(p) == [pc |-> p, res |-> NoResult, started |-> <<>>, ok |-> <<>>,
               failed |-> "", panic |-> FALSE]
Fail(stage, err) == [pc |-> "idle", res |-> err, started |-> <<>>, ok |-> <<>>,
                     failed |-> stage, panic |-> FALSE]
Done == [pc |-> "idle", res |-> OkResult, started |-> <<>>, ok |-> <<>>,
         failed |-> "", panic |-> FALSE]
Panic(stage) == [pc |-> "panicked", res |-> NoResult, started |-> <<>>, ok |-> <<>>,
                 failed |-> stage, panic |-> TRUE]
WithStart(stage, e) == [e EXCEPT !.started = <<stage>> \o @]
WithOk(stage, e) == [e EXCEPT !.ok = <<stage>> \o @]

\* The `?` chain: the results of the wrapped provider calls in program order;
\* the first that is not Ok is returned.
FirstError(results) ==
    LET bad == {i \in DOMAIN results : results[i] # OkResult}
    IN  IF bad = {} THEN OkResult
        ELSE results[CHOOSE i \in bad : \A j \in bad : i <= j]

\* Provider calls of each segment; the input `f` names the one that fails
\* ("none": all succeed; "empty": the returned list is empty).
BeginCalls == {"GetDeviceSelectorFromBluetoothAddress", "FindAllAsyncAqsFilter"}
FindCalls == {"FindAllAsyncAqsFilter.await", "Size", "empty", "GetAt", "Id", "FromIdAsync"}
FromIdCalls == {"FromIdAsync.await"}
PairQueryCalls == {"DeviceInformation", "Pairing", "CanPair", "IsPaired"}
PairDoCalls == {"Custom", "PairingRequested", "PairAsync"}
PairEndCalls == {"PairAsync.await", "RemovePairingRequested"}
ServiceBeginCalls == {"create_service_id", "GetRfcommServicesForIdAsync"}
ServiceCalls == {"GetRfcommServicesForIdAsync.await", "Services", "Size", "empty", "GetAt"}
SocketCalls == {"StreamSocket::new", "ConnectionHostName", "ConnectionServiceName",
                "ConnectAsync"}
ConnectCalls == {"ConnectAsync.await"}

\* session.rs 120-131: stage 1 up to the first suspension
DeviceStageBegin(f) ==
    LET r == FirstError(<<
            winrt_error_wrap(f # "GetDeviceSelectorFromBluetoothAddress", f),
            winrt_async_with_error(f # "FindAllAsyncAqsFilter", DeviceNotFound) >>)
    IN  WithStart("ResolveDevice",
            IF r # OkResult THEN Fail("ResolveDevice", r) ELSE Suspend("await_find"))

\* session.rs 131-153: the device list arrived (or the query failed)
DeviceStageFound(f) ==
    LET r == FirstError(<<
            winrt_async_with_error(f # "FindAllAsyncAqsFilter.await", DeviceNotFound),
            winrt_error_wrap_with_error(f # "Size", DeviceNotFound),
            IF f = "empty" THEN DeviceNotFound ELSE OkResult,
            winrt_error_wrap_with_error(f # "GetAt", DeviceNotFound),
            winrt_error_wrap_with_error(f # "Id", DeviceNotFound),
            winrt_async_with_error(f # "FromIdAsync", DeviceNotFound) >>)
    IN  IF r # OkResult THEN Fail("ResolveDevice", r) ELSE Suspend("await_fromid")

\* session.rs 199-207: stage 3 up to its suspension
ServiceStageBegin(f) ==
    LET r == FirstError(<<
            winrt_error_wrap(f # "create_service_id", f),
            winrt_async_with_error(f # "GetRfcommServicesForIdAsync", ServiceNotFound) >>)
    IN  WithStart("ResolveService",
            IF r # OkResult THEN Fail("ResolveService", r) ELSE Suspend("await_services"))

\* (mutant) the pairing flow runs for every peer that can be paired, paired
\* already or not
PairStageBegin_ignores_is_paired(f, can_pair, is_paired) ==
    LET q == FirstError(<<
            winrt_error_wrap_with_error(f # "DeviceInformation", DeviceNotPairing),
            winrt_error_wrap_with_error(f # "Pairing", DeviceNotPairing),
            winrt_error_wrap_with_error(f # "CanPair", DeviceNotPairing),
            winrt_error_wrap_with_error(f # "IsPaired", DeviceNotPairing) >>)
        p == FirstError(<<
            winrt_error_wrap_with_error(f # "Custom", DeviceNotPairing),
            winrt_error_wrap_with_error(f # "PairingRequested", DeviceNotPairing),
            winrt_async(f # "PairAsync", f) >>)
    IN  WithStart("Pair",
            IF q # OkResult THEN Fail("Pair", q)
            ELSE IF can_pair
                 THEN IF p # OkResult THEN Fail("Pair", p) ELSE Suspend("await_pair")
                 ELSE WithOk("Pair", ServiceStageBegin(f)))

\* session.rs 155-189: stage 2 up to PairAsync, or through to stage 3 when no
\* pairing call is needed
PairStageBegin(f, can_pair, is_paired) ==
    LET q == FirstError(<<
            winrt_error_wrap_with_error(f # "DeviceInformation", DeviceNotPairing),
            winrt_error_wrap_with_error(f # "Pairing", DeviceNotPairing),
            winrt_error_wrap_with_error(f # "CanPair", DeviceNotPairing),
            winrt_error_wrap_with_error(f # "IsPaired", DeviceNotPairing) >>)
        p == FirstError(<<
            winrt_error_wrap_with_error(f # "Custom", DeviceNotPairing),
            winrt_error_wrap_with_error(f # "PairingRequested", DeviceNotPairing),
            winrt_async(f # "PairAsync", f) >>)
    IN  WithStart("Pair",
            IF q # OkResult THEN Fail("Pair", q)
            ELSE IF can_pair /\ ~is_paired
                 THEN IF p # OkResult THEN Fail("Pair", p) ELSE Suspend("await_pair")
                 ELSE WithOk("Pair", ServiceStageBegin(f)))

\* session.rs 153-156: the device object arrived (or FromIdAsync failed)
DeviceStageEnd(need_pairing, f, can_pair, is_paired) ==
    LET r == winrt_async_with_error(f # "FromIdAsync.await", DeviceNotFound)
    IN  IF r # OkResult THEN Fail("ResolveDevice", r)
        ELSE WithOk("ResolveDevice",
                IF need_pairing THEN PairStageBegin(f, can_pair, is_paired)
                ELSE ServiceStageBegin(f))

\* session.rs 185-197: PairAsync completed (or failed)
PairStageEnd(f) ==
    LET r == FirstError(<<
            winrt_async(f # "PairAsync.await", f),
            winrt_none_error_wrap_with_error(f # "RemovePairingRequested",
                                             DeviceNotPairing) >>)
    IN  IF r # OkResult THEN Fail("Pair", r)
        ELSE WithOk("Pair", ServiceStageBegin(f))

\* session.rs 207-221: the service list arrived (or the query failed)
ServiceStageEnd(f) ==
    FirstError(<<
        winrt_async_with_error(f # "GetRfcommServicesForIdAsync.await", ServiceNotFound),
        winrt_error_wrap_with_error(f # "Services", ServiceNotFound),
        winrt_error_wrap_with_error(f # "Size", DeviceNotFound),
        IF f = "empty" THEN ServiceNotFound ELSE OkResult,
        winrt_error_wrap_with_error(f # "GetAt", ServiceNotFound) >>)

\* session.rs 223-231: stage 4 up to its suspension. The host and service
\* names are unwrapped: an Err there aborts the process.
SocketStageBegin(f) ==
    LET r == winrt_error_wrap(f # "StreamSocket::new", f)
        c == winrt_async_action(f # "ConnectAsync", f)
    IN  WithStart("ConnectSocket",
            IF r # OkResult THEN Fail("ConnectSocket", r)
            ELSE IF f \in {"ConnectionHostName", "ConnectionServiceName"}
                 THEN Panic("ConnectSocket")
            ELSE IF c # OkResult THEN Fail("ConnectSocket", c)
            ELSE Suspend("await_connect"))

\* session.rs 231-235: ConnectAsync completed (or failed)
SocketStageEnd(f) ==
    LET r == winrt_async_action(f # "ConnectAsync.await", f)
    IN  IF r # OkResult THEN Fail("ConnectSocket", r)
        ELSE WithOk("ConnectSocket", Done)

\* Record the effect `e` of a segment of the attempt of call `c`.
Apply(started0, ok0, e, c) ==
    /\ pc' = e.pc
    /\ panicked' = e.panic
    /\ stagesStarted' = started0 \o e.started
    /\ stagesOk' = ok0 \o e.ok
    /\ failedStage' = e.failed
    /\ stageError' = IF e.failed # "" THEN e.res ELSE NoResult
    /\ pipeResult' = e.res
    /\ callResult' = IF e.pc = "idle" THEN EntryResult(c, e.res) ELSE NoResult

\* ------------------------------------------------------- native operations
\* A slot (read_future / write_future) is None or holds the boxed future of one
\* native operation: the socket it was started on, its capacity (bytes to read
\* or to write), its status in the native layer and, once completed, the bytes
\* transferred.
NewOp(cap) == [st |-> "outstanding", sock |-> socket, cap |-> cap, n |-> 0]

\* `slot = None`: the boxed future is dropped. The native operation is not
\* cancelled: if still outstanding it goes on in the native layer, unobserved;
\* if it had completed, its result is gone with the future.
DropSlot(orph, dir, slot) ==
    IF slot.st = "outstanding" THEN [orph EXCEPT ![dir] = @ + 1] ELSE orph

Occupied == Cardinality({d \in {"read", "write"} :
                (IF d = "read" THEN read_future ELSE write_future) # None})
\* native operations of direction `dir` started by the session and not completed
Outstanding(dir) ==
    orphans[dir]
    + (IF (IF dir = "read" THEN read_future ELSE write_future).st = "outstanding"
       THEN 1 ELSE 0)
CanStart == orphans.read + orphans.write + Occupied < MaxOps

\* The native layer completes an outstanding operation (op.into_future() becomes
\* ready, session.rs 304 / 394). An operation on a closed socket can only fail.
\* A read of capacity cap yields 0..cap bytes, a write reports 1..len bytes.
Completed(o, dir, outcome, n) ==
    /\ o.st = "outstanding"
    /\ o.sock \in openSockets \/ outcome = "err"
    /\ n <= o.cap
    /\ outcome = "err" => n = 0
    /\ (outcome = "ok" /\ dir = "write") => n >= 1

NativeCompleteRead(outcome, n) ==
    /\ ~panicked
    /\ Completed(read_future, "read", outcome, n)
    /\ read_future' = [read_future EXCEPT !.st = outcome, !.n = n]
    /\ UNCHANGED <<codec, impl, uuid, device, socket, ready, write_future, nativeVars,
                   callVars, lastPoll, panicked, mockVars>>

NativeCompleteWrite(outcome, n) ==
    /\ ~panicked
    /\ Completed(write_future, "write", outcome, n)
    /\ write_future' = [write_future EXCEPT !.st = outcome, !.n = n]
    /\ UNCHANGED <<codec, impl, uuid, device, socket, ready, read_future, nativeVars,
                   callVars, lastPoll, panicked, mockVars>>

\* an operation nobody holds a future of completes: its result is lost
NativeCompleteOrphan(dir) ==
    /\ ~panicked
    /\ orphans[dir] > 0
    /\ orphans' = [orphans EXCEPT ![dir] = @ - 1]
    /\ UNCHANGED <<codec, impl, winrtVars, openSockets, callVars, lastPoll, panicked,
                   mockVars>>

\* the handle a new StreamSocket gets: another one than the held socket's
NewSocket == CHOOSE i \in SocketIds : i # socket

\* ------------------------------------------------ WinrtSession: connecting
\* (mutant) the prologue without `self.socket.Close()`
connect_by_uuid_async_without_close(dev, u, need_pairing, c) ==
    /\ openSockets' = openSockets
    /\ device' = dev
    /\ uuid' = u
    /\ ready' = FALSE
    /\ read_future' = None
    /\ write_future' = None
    /\ orphans' = DropSlot(DropSlot(orphans, "read", read_future),
                           "write", write_future)
    /\ Apply(<<>>, <<>>, Suspend("start"), c)
    /\ UNCHANGED <<socket, mockVars>>

\* (mutant) the prologue without `self.read_future = None`
connect_by_uuid_async_keeps_read_slot(dev, u, need_pairing, c) ==
    /\ openSockets' = openSockets \ {socket}
    /\ device' = dev
    /\ uuid' = u
    /\ ready' = FALSE
    /\ read_future' = read_future
    /\ write_future' = None
    /\ orphans' = DropSlot(orphans, "write", write_future)
    /\ Apply(<<>>, <<>>, Suspend("start"), c)
    /\ UNCHANGED <<socket, mockVars>>

\* (mutant) the prologue without `self.write_future = None`
connect_by_uuid_async_keeps_write_slot(dev, u, need_pairing, c) ==
    /\ openSockets' = openSockets \ {socket}
    /\ device' = dev
    /\ uuid' = u
    /\ ready' = FALSE
    /\ read_future' = None
    /\ write_future' = write_future
    /\ orphans' = DropSlot(orphans, "read", read_future)
    /\ Apply(<<>>, <<>>, Suspend("start"), c)
    /\ UNCHANGED <<socket, mockVars>>

\* session.rs 106-118: the prologue of connect_by_uuid_async, for the call `c`:
\* the held socket is closed, the slots are emptied, readiness is cleared.
connect_by_uuid_async(dev, u, need_pairing, c) ==
    /\ openSockets' = openSockets \ {socket}
    /\ device' = dev
    /\ uuid' = u
    /\ ready' = FALSE
    /\ read_future' = None
    /\ write_future' = None
    /\ orphans' = DropSlot(DropSlot(orphans, "read", read_future),
                           "write", write_future)
    /\ Apply(<<>>, <<>>, Suspend("start"), c)
    /\ UNCHANGED <<socket, mockVars>>

\* mock/session.rs 99-103: `while self.blocked { sleep(..).await }` and the
\* return after it. tokio's sleep needs the runtime's timer: created on a thread
\* without a runtime context it panics.
MockSleepLoop(in_runtime) ==
    IF ~blocked THEN Done
    ELSE IF in_runtime THEN Suspend("mock_sleep")
    ELSE Panic("")

\* (mutant) the double records the device but not the service uuid
MockSession_connect_by_uuid_async_keeps_uuid(dev, u, need_pairing, c, in_runtime) ==
    /\ m_device' = dev
    /\ m_uuid' = m_uuid
    /\ m_need_pairing' = need_pairing
    /\ Apply(<<>>, <<>>, MockSleepLoop(in_runtime), c)
    /\ UNCHANGED <<winrtVars, nativeVars, blocked, buffer, position, is_ready,
                   delivered>>

\* mock/session.rs 89-104; `in_runtime`: the future is polled on a thread
\* with a tokio runtime context
MockSession_connect_by_uuid_async(dev, u, need_pairing, c, in_runtime) ==
    /\ m_device' = dev
    /\ m_uuid' = u
    /\ m_need_pairing' = need_pairing
    /\ Apply(<<>>, <<>>, MockSleepLoop(in_runtime), c)
    /\ UNCHANGED <<winrtVars, nativeVars, blocked, buffer, position, is_ready,
                   delivered>>

\* session.rs 76-78 / 88-90, mock/session.rs 59-61 / 71-73: a blocking entry
\* point called on a thread that is driving a tokio runtime. rt.block_on panics
\* before the pipeline is polled: the session is untouched, nothing is returned.
block_on_panics ==
    /\ pc' = "panicked"
    /\ panicked' = TRUE
    /\ stagesStarted' = <<>> /\ stagesOk' = <<>>
    /\ failedStage' = "" /\ stageError' = NoResult
    /\ pipeResult' = NoResult /\ callResult' = NoResult
    /\ UNCHANGED <<winrtVars, nativeVars, mockVars>>

\* The latest call was a blocking connect that panicked in block_on
BlockOnPanicked ==
    pc = "panicked" /\ failedStage = "" /\ call.entry = "blocking"

\* The latest call was an async connect of the blocked double that panicked
\* creating its sleep outside a runtime (mock/session.rs 99-101)
SleepPanicked ==
    pc = "panicked" /\ failedStage = "" /\ call.entry = "async"

\* A connect entry point is called: block_on (or, for the async methods, the
\* caller's executor) polls the pipeline, for the native session in two steps:
\* the prologue, then StartPipeline with no caller or timer step in between.
\* timeout = NoTimeout for the variants without a timer. `in_runtime`: the
\* caller is running inside a tokio runtime. A blocking entry point then panics
\* in block_on, and otherwise polls the pipeline inside the runtime it built;
\* an async method is polled in the caller's context, whichever it is.
Connect(dev, u, need_pairing, timeout, entry) ==
    /\ pc = "idle" /\ ~panicked
    /\ LET c == [device |-> dev, uuid |-> u, need_pairing |-> need_pairing,
                 timeout |-> timeout, entry |-> entry]
       IN  /\ call' = c
           /\ \E in_runtime \in BOOLEAN :
                IF entry = "blocking" /\ in_runtime
                THEN block_on_panics
                ELSE IF impl = "winrt"
                THEN connect_by_uuid_async(dev, u, need_pairing, c)
                ELSE MockSession_connect_by_uuid_async(dev, u, need_pairing, c,
                            entry = "blocking" \/ in_runtime)
    /\ timerFired' = FALSE
    /\ retry' = timerFired
    /\ abandonedAt' = ""
    /\ lastPoll' = NoPoll
    /\ UNCHANGED <<impl, codec>>

connect(dev, need_pairing) ==
    Connect(dev, SPP_UUID, need_pairing, NoTimeout, "blocking")
connect_timeout(dev, need_pairing, timeout) ==
    Connect(dev, SPP_UUID, need_pairing, timeout, "blocking")
connect_by_uuid(dev, u, need_pairing) ==
    Connect(dev, u, need_pairing, NoTimeout, "blocking")
connect_by_uuid_timeout(dev, u, need_pairing, timeout) ==
    Connect(dev, u, need_pairing, timeout, "blocking")

\* The async trait methods called directly (lib.rs 61-71): the caller creates
\* the future and polls it for the first time. A future never polled runs no
\* code and is no step.
connect_async(dev, need_pairing) ==
    Connect(dev, SPP_UUID, need_pairing, NoTimeout, "async")
poll_connect_by_uuid_async(dev, u, need_pairing) ==
    Connect(dev, u, need_pairing, NoTimeout, "async")

\* The caller of an async method drops the future while it is suspended: the
\* pipeline stops where it stands, no result is returned, nothing else runs.
DropFuture ==
    /\ ~panicked
    /\ pc \in AwaitPcs
    /\ call.entry = "async"
    /\ pc' = "idle"
    /\ abandonedAt' = pc
    /\ pipeResult' = NoResult
    /\ callResult' = NoResult
    /\ UNCHANGED <<codec, impl, winrtVars, nativeVars, call, stagesStarted, stagesOk,
                   failedStage, stageError, retry, timerFired, lastPoll, panicked,
                   mockVars>>

\* into_device(self) (session.rs 251-253, mock/session.rs 119): the session is
\* consumed. Its fields are dropped: the socket handle is released and the
\* boxed futures go, their operations still outstanding going on unobserved.
into_device ==
    /\ pc = "idle" /\ ~panicked
    /\ pc' = "consumed"
    /\ ClearAttempt
    /\ lastPoll' = PollRecord("into_device", "Ready", 0, FALSE)
    /\ IF impl = "winrt"
       THEN /\ openSockets' = openSockets \ {socket}
            /\ read_future' = None
            /\ write_future' = None
            /\ orphans' = DropSlot(DropSlot(orphans, "read", read_future),
                                   "write", write_future)
       ELSE UNCHANGED <<openSockets, read_future, write_future, orphans>>
    /\ UNCHANGED <<codec, impl, uuid, device, socket, ready, timerFired, panicked,
                   mockVars>>

\* time::timeout: the deadline passes while the pipeline is suspended. The
\* pipeline future is dropped where it stands; nothing else runs.
TimerFires ==
    /\ ~panicked
    /\ pc \in AwaitPcs
    /\ call.entry = "blocking" /\ call.timeout # NoTimeout
    /\ pc' = "idle"
    /\ timerFired' = TRUE
    /\ abandonedAt' = pc
    /\ pipeResult' = NoResult
    /\ callResult' = connect_by_uuid_timeout_result(
                        [elapsed |-> TRUE, inner |-> NoResult], call.timeout)
    /\ UNCHANGED <<codec, impl, winrtVars, nativeVars, call, stagesStarted, stagesOk,
                   failedStage, stageError, retry, lastPoll, panicked, mockVars>>

\* The pipeline resumes at a suspension point and runs to the next one.
Resume(e) ==
    /\ Apply(stagesStarted, stagesOk, e, call)
    /\ UNCHANGED <<codec, impl, call, timerFired, retry, abandonedAt, lastPoll, mockVars>>

\* session.rs 120-131: stage 1 up to the first suspension point
StartPipeline ==
    /\ ~panicked /\ pc = "start"
    /\ \E f \in BeginCalls \cup {"none"} : Resume(DeviceStageBegin(f))
    /\ UNCHANGED <<winrtVars, nativeVars>>

ResumeFind ==
    /\ ~panicked /\ pc = "await_find"
    /\ \E f \in FindCalls \cup {"none"} : Resume(DeviceStageFound(f))
    /\ UNCHANGED <<winrtVars, nativeVars>>

\* The provider calls that may fail between FromIdAsync's completion and the
\* next suspension
FromIdFailures == FromIdCalls \cup PairQueryCalls \cup PairDoCalls
                      \cup ServiceBeginCalls \cup {"none"}

\* session.rs 153-207 with the failing call `f` and the peer's pairing state
ResumeFromIdWith(f, can_pair, is_paired) ==
    /\ ~panicked /\ pc = "await_fromid"
    /\ Resume(DeviceStageEnd(call.need_pairing, f, can_pair, is_paired))
    /\ UNCHANGED <<winrtVars, nativeVars>>

ResumeFromId ==
    \E f \in FromIdFailures, can_pair \in BOOLEAN, is_paired \in BOOLEAN :
        /\ ~call.need_pairing => (~can_pair /\ ~is_paired)
        /\ ResumeFromIdWith(f, can_pair, is_paired)

ResumePair ==
    /\ ~panicked /\ pc = "await_pair"
    /\ \E f \in PairEndCalls \cup ServiceBeginCalls \cup {"none"} :
           Resume(PairStageEnd(f))
    /\ UNCHANGED <<winrtVars, nativeVars>>

\* session.rs 207-231. The old handle was closed by the prologue; the new
\* StreamSocket replaces it in self.socket before the connect is started.
ResumeServices ==
    /\ ~panicked /\ pc = "await_services"
    /\ \E f \in ServiceCalls \cup SocketCalls \cup {"none"} :
        LET r == ServiceStageEnd(f)
            created == r = OkResult /\ f # "StreamSocket::new"
        IN  /\ Resume(IF r # OkResult THEN Fail("ResolveService", r)
                      ELSE WithOk("ResolveService", SocketStageBegin(f)))
            /\ socket' = IF created THEN NewSocket ELSE socket
            /\ openSockets' = IF created
                              THEN (openSockets \ {socket}) \cup {NewSocket}
                              ELSE openSockets
    /\ UNCHANGED <<uuid, device, ready, read_future, write_future, orphans>>

\* (mutant) `self.ready = true` is reached whatever ConnectAsync returned
ResumeConnect_ready_on_failure ==
    /\ ~panicked /\ pc = "await_connect"
    /\ \E f \in ConnectCalls \cup {"none"} :
        /\ Resume(SocketStageEnd(f))
        /\ ready' = TRUE
    /\ UNCHANGED <<uuid, device, socket, read_future, write_future, nativeVars>>

\* session.rs 231-235
ResumeConnect ==
    /\ ~panicked /\ pc = "await_connect"
    /\ \E f \in ConnectCalls \cup {"none"} :
        LET e == SocketStageEnd(f)
        IN  /\ Resume(e)
            /\ ready' = IF e.res = OkResult THEN TRUE ELSE ready
    /\ UNCHANGED <<uuid, device, socket, read_future, write_future, nativeVars>>

\* mock/session.rs 99-101: the sleep ends; `blocked` cannot have changed while
\* the call borrows the session, so the loop creates the next sleep: inside the
\* entry point's own runtime, or wherever the caller of an async method polls.
MockSleep ==
    /\ ~panicked /\ pc = "mock_sleep"
    /\ \E in_runtime \in (IF call.entry = "blocking" THEN {TRUE} ELSE BOOLEAN) :
           Resume(MockSleepLoop(in_runtime))
    /\ UNCHANGED <<winrtVars, nativeVars>>

\* ------------------------------------------- WinrtSession: the stream adapter
PollCommon ==
    /\ impl = "winrt" /\ pc = "idle" /\ ~panicked
    /\ ClearAttempt
    /\ UNCHANGED <<codec, impl, uuid, device, socket, openSockets, pc, timerFired, mockVars>>

\* session.rs 315-346: poll the boxed read future `o`; `remaining` is
\* buf.remaining(), `rb` whether read_input_buffer succeeds.
PollReadFuture(o, remaining, rb) ==
    CASE o.st = "outstanding" ->
            /\ read_future' = o
            /\ ready' = ready
            /\ panicked' = FALSE
            /\ lastPoll' = PollRecord("poll_read", "Pending", 0, FALSE)
      [] o.st = "ok" /\ rb /\ o.n <= remaining ->
            /\ read_future' = None
            /\ ready' = ready
            /\ panicked' = FALSE
            /\ lastPoll' = PollRecord("poll_read", "Ready", o.n, FALSE)
      [] o.st = "ok" /\ rb /\ o.n > remaining ->
            \* buf.put_slice panics: more bytes than the buffer has room for
            /\ read_future' = None
            /\ ready' = ready
            /\ panicked' = TRUE
            /\ lastPoll' = PollRecord("poll_read", "none", 0, FALSE)
      [] o.st = "ok" /\ ~rb ->
            /\ read_future' = None
            /\ ready' = FALSE
            /\ panicked' = FALSE
            /\ lastPoll' = PollRecord("poll_read", "Pending", 0, TRUE)
      [] o.st = "err" ->
            /\ read_future' = None
            /\ ready' = FALSE
            /\ panicked' = FALSE
            /\ lastPoll' = PollRecord("poll_read", "Pending", 0, TRUE)

\* The state a freshly started operation may already be in when its future is
\* first polled: still outstanding, or completed by the native layer meanwhile.
FreshStates(dir, cap) ==
    {[st |-> "outstanding", n |-> 0], [st |-> "err", n |-> 0]}
    \cup {[st |-> "ok", n |-> k] : k \in (IF dir = "read" THEN 0 ELSE 1)..cap}

\* session.rs 270-349: poll_read past the readiness check
PollReadReady(remaining) ==
    IF remaining = 0 THEN
        /\ lastPoll' = PollRecord("poll_read", "Ready", 0, FALSE)
        /\ UNCHANGED <<ready, read_future, orphans, panicked>>
    ELSE IF read_future = None THEN
        \E f \in {"InputStream", "Buffer::Create", "ReadAsync", "none"} :
            IF f # "none" THEN
                /\ ready' = FALSE
                /\ lastPoll' = PollRecord("poll_read", "Pending", 0, TRUE)
                /\ UNCHANGED <<read_future, orphans, panicked>>
            ELSE
                /\ CanStart
                /\ UNCHANGED orphans
                /\ \E s \in FreshStates("read", remaining), rb \in BOOLEAN :
                    /\ s.st # "ok" => rb
                    /\ PollReadFuture([NewOp(remaining) EXCEPT !.st = s.st, !.n = s.n],
                                      remaining, rb)
    ELSE
        /\ UNCHANGED orphans
        /\ \E rb \in BOOLEAN :
            /\ read_future.st # "ok" => rb
            /\ PollReadFuture(read_future, remaining, rb)

\* (mutant) poll_read without the `if !self_mut.ready` check
WinrtSession_poll_read_unchecked(remaining) ==
    /\ PollCommon
    /\ UNCHANGED write_future
    /\ PollReadReady(remaining)

\* session.rs 257-349
WinrtSession_poll_read(remaining) ==
    /\ PollCommon
    /\ UNCHANGED write_future
    /\ IF ~ready THEN
            /\ read_future' = None
            /\ orphans' = DropSlot(orphans, "read", read_future)
            /\ lastPoll' = PollRecord("poll_read", "Pending", 0, FALSE)
            /\ UNCHANGED <<ready, panicked>>
       ELSE PollReadReady(remaining)

\* (mutant) a failed write leaves the readiness flag alone
PollWriteFuture_keeps_ready(o, len) ==
    CASE o.st = "outstanding" ->
            /\ write_future' = o
            /\ ready' = ready
            /\ lastPoll' = PollRecord("poll_write", "Pending", 0, FALSE)
      [] o.st = "ok" ->
            /\ write_future' = None
            /\ ready' = ready
            /\ lastPoll' = PollRecord("poll_write", "Ready", o.n, FALSE)
      [] o.st = "err" ->
            /\ write_future' = None
            /\ ready' = ready
            /\ lastPoll' = PollRecord("poll_write", "Pending", 0, TRUE)

\* session.rs 404-419: poll the boxed write future `o`
PollWriteFuture(o, len) ==
    CASE o.st = "outstanding" ->
            /\ write_future' = o
            /\ ready' = ready
            /\ lastPoll' = PollRecord("poll_write", "Pending", 0, FALSE)
      [] o.st = "ok" ->
            /\ write_future' = None
            /\ ready' = ready
            /\ lastPoll' = PollRecord("poll_write", "Ready", o.n, FALSE)
      [] o.st = "err" ->
            /\ write_future' = None
            /\ ready' = FALSE
            /\ lastPoll' = PollRecord("poll_write", "Pending", 0, TRUE)

\* session.rs 353-422
WinrtSession_poll_write(len) ==
    /\ PollCommon
    /\ UNCHANGED <<read_future, panicked>>
    /\ IF ~ready THEN
            /\ write_future' = None
            /\ orphans' = DropSlot(orphans, "write", write_future)
            /\ lastPoll' = PollRecord("poll_write", "Pending", 0, FALSE)
            /\ UNCHANGED ready
       ELSE IF len = 0 THEN
            /\ lastPoll' = PollRecord("poll_write", "Ready", 0, FALSE)
            /\ UNCHANGED <<ready, write_future, orphans>>
       ELSE IF write_future = None THEN
            \E f \in {"OutputStream", "write_output_buffer", "WriteAsync", "none"} :
                IF f # "none" THEN
                    /\ ready' = FALSE
                    /\ lastPoll' = PollRecord("poll_write", "Pending", 0, TRUE)
                    /\ UNCHANGED <<write_future, orphans>>
                ELSE
                    /\ CanStart
                    /\ UNCHANGED orphans
                    /\ \E s \in FreshStates("write", len) :
                        PollWriteFuture([NewOp(len) EXCEPT !.st = s.st, !.n = s.n], len)
       ELSE
            /\ UNCHANGED orphans
            /\ PollWriteFuture(write_future, len)

\* session.rs 424-429
WinrtSession_poll_flush ==
    /\ PollCommon
    /\ lastPoll' = PollRecord("poll_flush", "Ready", 0, FALSE)
    /\ UNCHANGED <<ready, read_future, write_future, orphans, panicked>>

\* session.rs 431-436
WinrtSession_poll_shutdown ==
    /\ PollCommon
    /\ lastPoll' = PollRecord("poll_shutdown", "Ready", 0, FALSE)
    /\ UNCHANGED <<ready, read_future, write_future, orphans, panicked>>

\* ------------------------------------------------------------ MockSession
MockCommon ==
    /\ impl = "mock" /\ pc = "idle" /\ ~panicked
    /\ ClearAttempt
    /\ UNCHANGED <<codec, impl, winrtVars, nativeVars, pc, timerFired, m_uuid,
                   m_device, m_need_pairing>>

MockPollRecord(fn, res, n) ==
    [fn |-> fn, res |-> res, n |-> n, failed |-> FALSE]

SeqsUpTo(S, k) == UNION {[1..m -> S] : m \in 0..k}

\* mock/session.rs 34-36
blocked_connect(b) ==
    /\ MockCommon
    /\ blocked' = b
    /\ UNCHANGED <<buffer, position, is_ready, delivered, lastPoll, panicked>>

\* (mutant) a read hands the unread bytes over without advancing the position
MockSession_poll_read_keeps_position(remaining) ==
    /\ MockCommon
    /\ UNCHANGED <<blocked, buffer>>
    /\ IF is_ready THEN
            LET data == SubSeq(buffer, position + 1, Len(buffer))
            IN  IF Len(data) > remaining THEN
                    /\ panicked' = TRUE
                    /\ lastPoll' = MockPollRecord("poll_read", "none", 0)
                    /\ UNCHANGED <<position, is_ready, delivered>>
                ELSE
                    /\ position' = position
                    /\ delivered' = delivered \o data
                    /\ Len(delivered') <= MaxBuf + 1
                    /\ lastPoll' = MockPollRecord("poll_read", "Ready",
                                                  Len(data))
                    /\ UNCHANGED <<is_ready, panicked>>
       ELSE
            /\ is_ready' = TRUE
            /\ lastPoll' = MockPollRecord("poll_read", "Pending", 0)
            /\ UNCHANGED <<position, delivered, panicked>>

\* mock/session.rs 124-143; put_slice panics when the unread data exceeds the
\* room left in the caller's buffer.
MockSession_poll_read(remaining) ==
    /\ MockCommon
    /\ UNCHANGED <<blocked, buffer>>
    /\ IF is_ready THEN
            LET data == SubSeq(buffer, position + 1, Len(buffer))
            IN  IF Len(data) > remaining THEN
                    /\ panicked' = TRUE
                    /\ lastPoll' = MockPollRecord("poll_read", "none", 0)
                    /\ UNCHANGED <<position, is_ready, delivered>>
                ELSE
                    /\ position' = position + Len(data)
                    /\ delivered' = delivered \o data
                    /\ lastPoll' = MockPollRecord("poll_read", "Ready",
                                                  Len(data))
                    /\ UNCHANGED <<is_ready, panicked>>
       ELSE
            /\ is_ready' = TRUE
            /\ lastPoll' = MockPollRecord("poll_read", "Pending", 0)
            /\ UNCHANGED <<position, delivered, panicked>>

\* mock/session.rs 146-154
MockSession_poll_write(buf) ==
    /\ MockCommon
    /\ Len(buffer) + Len(buf) <= MaxBuf
    /\ buffer' = buffer \o buf
    /\ lastPoll' = MockPollRecord("poll_write", "Ready", Len(buf))
    /\ UNCHANGED <<blocked, position, is_ready, delivered, panicked>>

\* mock/session.rs 156-169
MockSession_poll_flush ==
    /\ MockCommon
    /\ IF is_ready THEN
            /\ lastPoll' = MockPollRecord("poll_flush", "Ready", 0)
            /\ UNCHANGED is_ready
       ELSE
            /\ is_ready' = TRUE
            /\ lastPoll' = MockPollRecord("poll_flush", "Pending", 0)
    /\ UNCHANGED <<blocked, buffer, position, delivered, panicked>>

\* mock/session.rs 171-176
MockSession_poll_shutdown ==
    /\ MockCommon
    /\ lastPoll' = MockPollRecord("poll_shutdown", "Ready", 0)
    /\ UNCHANGED <<blocked, buffer, position, is_ready, delivered, panicked>>

\* ---------------------------------------------------------- specification
Next ==
    \/ \E d \in Devices, np \in BOOLEAN : connect(d, np)
    \/ \E d \in Devices, np \in BOOLEAN, t \in Durations : connect_timeout(d, np, t)
    \/ \E d \in Devices, u \in Uuids, np \in BOOLEAN : connect_by_uuid(d, u, np)
    \/ \E d \in Devices, u \in Uuids, np \in BOOLEAN, t \in Durations :
           connect_by_uuid_timeout(d, u, np, t)
    \/ \E d \in Devices, np \in BOOLEAN : connect_async(d, np)
    \/ \E d \in Devices, u \in Uuids, np \in BOOLEAN :
           poll_connect_by_uuid_async(d, u, np)
    \/ TimerFires
    \/ DropFuture
    \/ into_device
    \/ StartPipeline
    \/ ResumeFind
    \/ ResumeFromId
    \/ ResumePair
    \/ ResumeServices
    \/ ResumeConnect
    \/ MockSleep
    \/ \E outcome \in {"ok", "err"}, n \in Caps : NativeCompleteRead(outcome, n)
    \/ \E outcome \in {"ok", "err"}, n \in Caps : NativeCompleteWrite(outcome, n)
    \/ \E dir \in {"read", "write"} : NativeCompleteOrphan(dir)
    \/ \E c \in Caps : WinrtSession_poll_read(c)
    \/ \E c \in Caps : WinrtSession_poll_write(c)
    \/ WinrtSession_poll_flush
    \/ WinrtSession_poll_shutdown
    \/ \E b \in BOOLEAN : blocked_connect(b)
    \/ \E c \in Caps : MockSession_poll_read(c)
    \/ \E buf \in SeqsUpTo(Bytes, MaxCap) : MockSession_poll_write(buf)
    \/ MockSession_poll_flush
    \/ MockSession_poll_shutdown

Spec == Init /\ [][Next]_vars

\* ------------------------------------------------------------ properties
IsPrefix(a, b) == Len(a) <= Len(b) /\ SubSeq(b, 1, Len(a)) = a

\* The stages of the connect pipeline, in the order of session.rs 120-231
ExpectedStages(need_pairing) ==
    IF need_pairing
    THEN <<"ResolveDevice", "Pair", "ResolveService", "ConnectSocket">>
    ELSE <<"ResolveDevice", "ResolveService", "ConnectSocket">>

\* The last connect call has returned and its outcome is still on record
Returned == pc = "idle" /\ callResult # NoResult

\* C1: when the timer of a connect call with a timeout fires before the
\* pipeline has completed, the call returns TimedOut carrying exactly the
\* duration that was passed in, and no pipeline result; this holds for the
\* native session and for the double whose connect is blocked.
C1_TimerFirstYieldsTimedOut ==
    (timerFired /\ call # NoCall) =>
        /\ pc = "idle"
        /\ call.timeout # NoTimeout
        /\ callResult = TimedOut(call.timeout)
        /\ pipeResult = NoResult

C1_Witness ==
    /\ impl = "winrt" /\ timerFired /\ abandonedAt = "await_connect"
    /\ call.timeout = 2 /\ callResult = TimedOut(2)

\* C2: when the pipeline completes before the timer fires, the connect call
\* returns the pipeline's own result (success or its specific error)
\* unchanged; the result is TimedOut if and only if the timer fired first.
C2_PipelineFirstPassesThrough ==
    Returned =>
        /\ ~timerFired => (pipeResult # NoResult /\ callResult = pipeResult)
        /\ callResult.kind = "TimedOut" <=> timerFired

C2_Witness ==
    /\ Returned /\ ~timerFired /\ call.timeout = 1
    /\ callResult = ServiceNotFound /\ pipeResult = ServiceNotFound

\* C3 (as claimed): at every moment at most one native read and at most one
\* native write are started and not yet completed in the native layer.
C3_AtMostOneOutstandingPerDirection ==
    Outstanding("read") <= 1 /\ Outstanding("write") <= 1

\* C4 (as claimed): a pending slot is released only after its native
\* operation has completed; no native operation is in flight without the
\* slot that started it (orphans counts exactly those operations).
C4_NoOperationDroppedInFlight ==
    orphans.read = 0 /\ orphans.write = 0

\* C5: a poll_read or poll_write issued while the session is not ready
\* starts no native operation, leaves its pending slot empty and returns
\* Pending, whatever the slots held before.
C5_NotReadyPollStartsNothing ==
    [][ /\ \A c \in Caps : (~ready /\ WinrtSession_poll_read(c)) =>
              /\ lastPoll' = PollRecord("poll_read", "Pending", 0, FALSE)
              /\ read_future' = None
              /\ Outstanding("read")' = Outstanding("read")
              /\ ~ready'
        /\ \A c \in Caps : (~ready /\ WinrtSession_poll_write(c)) =>
              /\ lastPoll' = PollRecord("poll_write", "Pending", 0, FALSE)
              /\ write_future' = None
              /\ Outstanding("write")' = Outstanding("write")
              /\ ~ready'
      ]_vars

C5_Witness ==
    /\ ~ready /\ orphans.read = 1 /\ read_future = None
    /\ lastPoll = PollRecord("poll_read", "Pending", 0, FALSE)

\* C6: when a read or write poll observes a failure (a native call that could
\* not be started, a native completion with an error, or a buffer that could
\* not be read), the session is not ready afterwards, the pending slot of
\* that direction is empty, and the poll returned Pending.
C6_FailureClearsReadiness ==
    lastPoll.failed =>
        /\ ~ready
        /\ lastPoll.res = "Pending"
        /\ lastPoll.fn = "poll_read" => read_future = None
        /\ lastPoll.fn = "poll_write" => write_future = None

C6_Witness ==
    /\ lastPoll.failed /\ lastPoll.fn = "poll_write" /\ ~ready
    /\ read_future.st = "outstanding"

\* C7: the readiness flag of the native session turns from false to true
\* only in the step that completes a connect pipeline successfully, and it is
\* false after every detected stream failure, failed connect and timeout.
C7_ReadyOnlyBySuccessfulConnect ==
    [][ /\ (~ready /\ ready') =>
              /\ pc = "await_connect" /\ pc' = "idle"
              /\ pipeResult' = OkResult
              /\ stagesOk' = ExpectedStages(call.need_pairing)
        /\ (lastPoll'.failed \/ failedStage' # "" \/ timerFired') => ~ready'
      ]_vars

C7_Witness ==
    /\ impl = "winrt" /\ ready /\ Returned /\ ~retry
    /\ callResult = OkResult

\* C8 (as claimed): the stages of the native connect run in the order
\* resolve-device, pair (only when requested), resolve-service, connect-socket;
\* a stage starts only after the previous one succeeded; after the first
\* failing stage no later stage is started and the attempt returns that
\* stage's error.
C8_StagesInOrder ==
    /\ IsPrefix(stagesStarted, ExpectedStages(call.need_pairing))
    /\ IsPrefix(stagesOk, stagesStarted)
    /\ Len(stagesStarted) <= Len(stagesOk) + 1
    /\ failedStage # "" =>
          /\ Len(stagesStarted) = Len(stagesOk) + 1
          /\ failedStage = stagesStarted[Len(stagesStarted)]
          /\ pc = "idle"
          /\ stageError.kind \notin {"none", "Ok", "TimedOut"}
          /\ pipeResult = stageError
          /\ callResult = stageError
    /\ pipeResult = OkResult /\ impl = "winrt" =>
          stagesOk = ExpectedStages(call.need_pairing)

\* C9 (as claimed): after a connect attempt ended with TimedOut, on the
\* native session or on the double, at whichever suspension point it was
\* abandoned, no read or write poll transfers bytes: it returns Pending (on the
\* native session: it is not ready and both slots are empty); a following
\* connect attempt of the native session runs the pipeline again from its
\* first stage, skips no stage, and ends ready when it succeeds.
C9_RetryAfterTimeoutStartsAfresh ==
    /\ timerFired =>
          /\ pc \in {"idle", "consumed"}
          /\ impl = "winrt" =>
                /\ ~ready
                /\ read_future = None /\ write_future = None
          /\ (lastPoll.fn \in {"poll_read", "poll_write"} /\ lastPoll.n > 0) =>
                lastPoll.res = "Pending"
    /\ (impl = "winrt" /\ retry) =>
          /\ pc = "start" => (stagesStarted = <<>> /\ ~ready)
          /\ (pc \notin {"start", "idle"} /\ ~BlockOnPanicked) =>
                (stagesStarted # <<>> /\ ~ready)
          /\ IsPrefix(stagesStarted, ExpectedStages(call.need_pairing))
          /\ pipeResult = OkResult =>
                (ready /\ stagesOk = ExpectedStages(call.need_pairing))

\* The steps the program takes without the caller: timer, pipeline and
\* native completions.
Background ==
    \/ TimerFires \/ StartPipeline \/ ResumeFind \/ ResumeFromId
    \/ ResumePair \/ ResumeServices \/ ResumeConnect \/ MockSleep
    \/ \E outcome \in {"ok", "err"}, n \in Caps : NativeCompleteRead(outcome, n)
    \/ \E outcome \in {"ok", "err"}, n \in Caps : NativeCompleteWrite(outcome, n)
    \/ \E dir \in {"read", "write"} : NativeCompleteOrphan(dir)

\* C10 (as claimed): when a timeout abandons the pipeline in the
\* connect-socket stage, the cleanup that follows closes the socket the
\* attempt created, without another connect from the caller: once nothing is
\* left to run in the background, that socket is no longer open.
C10_AbandonedSocketClosed ==
    (timerFired /\ abandonedAt = "await_connect" /\ ~ENABLED Background) =>
        socket \notin openSockets

\* C11: across connect attempts the socket held by the session is closed
\* before another handle takes its place, at most one socket of the session
\* is open at any time, and at the end of a successful connect exactly the
\* held socket is open.
C11_SocketClosedBeforeReplaced ==
    [][ /\ socket' # socket => socket \notin openSockets
        /\ Cardinality(openSockets') <= 1
        /\ (impl = "winrt" /\ pc # "idle" /\ pc' = "idle"
                /\ pipeResult' = OkResult) => openSockets' = {socket'}
      ]_vars

C11_Witness ==
    /\ impl = "winrt" /\ Returned /\ pipeResult = OkResult /\ ready
    /\ socket = 0 /\ openSockets = {0}

\* C12 (as claimed): with need_pairing true, every failure inside the pairing
\* stage makes connect return DeviceNotPairing.
C12_PairingFailureIsDeviceNotPairing ==
    (Returned /\ ~timerFired /\ failedStage = "Pair") =>
        (call.need_pairing /\ callResult = DeviceNotPairing)

\* C13 (as claimed): in the resolve-service stage an empty service list or a
\* failed provider call (the query, the list, its size, its first entry)
\* makes connect return ServiceNotFound. Building the service id comes before
\* those calls and is left out.
C13_ServiceFailureIsServiceNotFound ==
    (Returned /\ ~timerFired /\ failedStage = "ResolveService"
        /\ stageError # RuntimeError("create_service_id")) =>
        callResult = ServiceNotFound

\* Errors of the taxonomy that classify a failure
ClassifiedKinds ==
    {"PermissionDenied", "DeviceNotFound", "DeviceNotPairing",
     "ServiceNotFound", "NotConnected"}

\* C14 (as claimed): when connecting the freshly opened socket to the service
\* endpoint fails, connect returns NotConnected or a more specific classified
\* error, and the session is not ready.
C14_ConnectFailureIsNotConnected ==
    (Returned /\ ~timerFired /\ failedStage = "ConnectSocket"
        /\ stageError # RuntimeError("StreamSocket::new")) =>
        (callResult.kind \in ClassifiedKinds /\ ~ready)

\* What device() and the service identifier of the session report
Accessors ==
    IF impl = "winrt" THEN <<device, uuid>> ELSE <<m_device, m_uuid>>

\* C15: a connect attempt records the device and the service uuid passed to
\* it (the SPP uuid for connect and connect_timeout) when it is called, and
\* they stay so until the attempt has returned, whether it succeeds, fails at
\* any stage, times out or is dropped by the caller of an async method. (A
\* blocking call that panics in block_on makes no attempt.)
C15_IdentityRecordedOnEveryAttempt ==
    [][ /\ (pc = "idle" /\ ~panicked' /\ call'.timeout = NoTimeout
                        /\ call'.entry = "blocking") =>
              /\ \A d \in Devices, np \in BOOLEAN :
                    connect(d, np) => Accessors' = <<d, SPP_UUID>>
              /\ \A d \in Devices, u \in Uuids, np \in BOOLEAN :
                    connect_by_uuid(d, u, np) => Accessors' = <<d, u>>
        /\ (pc = "idle" /\ ~panicked' /\ call'.timeout # NoTimeout) =>
              /\ \A d \in Devices, np \in BOOLEAN :
                    connect_timeout(d, np, call'.timeout)
                        => Accessors' = <<d, SPP_UUID>>
              /\ \A d \in Devices, u \in Uuids, np \in BOOLEAN :
                    connect_by_uuid_timeout(d, u, np, call'.timeout)
                        => Accessors' = <<d, u>>
        /\ (pc = "idle" /\ call'.entry = "async") =>
              /\ \A d \in Devices, np \in BOOLEAN :
                    connect_async(d, np) => Accessors' = <<d, SPP_UUID>>
              /\ \A d \in Devices, u \in Uuids, np \in BOOLEAN :
                    poll_connect_by_uuid_async(d, u, np) => Accessors' = <<d, u>>
        /\ pc \notin {"idle", "consumed"} =>
              (Accessors' = Accessors /\ Accessors = <<call.device, call.uuid>>)
      ]_vars

C15_Witness ==
    /\ Returned /\ timerFired /\ abandonedAt = "await_services"
    /\ Accessors = <<[name |-> "Test", addr |-> 1], "custom-uuid">>

\* C16: on the in-memory double the bytes handed out by completed reads are
\* the bytes written, in write order, each once: what has been delivered is
\* the prefix of the written bytes up to the read position, and the position
\* never exceeds the number of bytes written.
C16_DoubleEchoesWrittenBytes ==
    /\ position <= Len(buffer)
    /\ IsPrefix(delivered, buffer)
    /\ Len(delivered) = position

C16_Witness ==
    /\ impl = "mock" /\ buffer = <<1, 2>> /\ delivered = <<1, 2>>
    /\ lastPoll = MockPollRecord("poll_read", "Ready", 1)

\* C17 (as claimed): on the double that is not blocked, a connect with
\* need_pairing = false returns success and immediately afterwards the
\* double's readiness flag is true, so the first read poll is not Pending
\* for lack of readiness.
C17_DoubleReadyAfterConnect ==
    (impl = "mock" /\ Returned /\ ~call.need_pairing /\ ~timerFired) =>
        (callResult = OkResult /\ is_ready)

\* C19 (as claimed): poll_flush reports Ready only when the write slot holds
\* no native write whose completion no poll has observed yet.
C19_FlushAfterWriteObserved ==
    (impl = "winrt" /\ lastPoll.fn = "poll_flush" /\ lastPoll.res = "Ready") =>
        write_future = None

\* C20 (as claimed): once poll_shutdown has returned, the session's socket
\* handle has been released and both pending slots are empty.
C20_ShutdownReleasesSocketAndSlots ==
    (impl = "winrt" /\ lastPoll.fn = "poll_shutdown") =>
        /\ socket \notin openSockets
        /\ read_future = None /\ write_future = None

\* ------------------------------------------------ the address codec alone
\* The codec is given a text (BluetoothDevice::new_by_addr_string,
\* device.rs 22-32) or a value (addr_string, device.rs 46-48).
CodecInit ==
    /\ SessionInit
    /\ \/ \E t \in MacTexts : codec = [NoCodec EXCEPT !.pc = "text",
                                          !.given = "text", !.text = t]
       \/ \E v \in MacValues : codec = [NoCodec EXCEPT !.pc = "value",
                                           !.given = "value", !.value = v]

Decode ==
    /\ codec.pc = "text"
    /\ codec' = [codec EXCEPT !.pc = "value",
                              !.value = mac_string_to_u64(codec.text)]
    /\ UNCHANGED sessionVars

Encode ==
    /\ codec.pc = "value" /\ codec.value.some
    /\ codec' = [codec EXCEPT !.pc = "encoded",
                              !.out = mac_u64_to_string(codec.value)]
    /\ UNCHANGED sessionVars

CodecNext == Decode \/ Encode

CodecSpec == CodecInit /\ [][CodecNext]_vars

\* A text of six colon-separated two-character octets whose characters are
\* all in `digits`
IsOctetText(t, digits) ==
    /\ Len(t) = 3 * MacOctets - 1
    /\ \A i \in 1..Len(t) :
          IF i % 3 = 0 THEN t[i] = ":"
          ELSE \E k \in 1..16 : digits[k] = t[i]
IsUpperOctetText(t) == IsOctetText(t, UpperHex)
IsHexOctetText(t) ==
    /\ Len(t) = 3 * MacOctets - 1
    /\ \A i \in 1..Len(t) :
          IF i % 3 = 0 THEN t[i] = ":" ELSE DigitValue(t[i]) >= 0

\* The numeric value of the i-th octet (most significant first) of a value
OctetOf(v, i) ==
    IF i <= 3 THEN (v.hi \div (256 ^ (3 - i))) % 256
    ELSE (v.lo \div (256 ^ (6 - i))) % 256

\* C18 (corrected): for every text of six colon-separated two-digit upper-case
\* hexadecimal octets, decoding and encoding again gives the text back; and
\* for every 48-bit value the text produced is six colon-separated two-digit
\* upper-case hexadecimal octets, most significant octet first.
C18_RoundTripUppercase ==
    codec.pc = "encoded" =>
        /\ (codec.given = "text" /\ IsUpperOctetText(codec.text)) =>
              codec.out = codec.text
        /\ IsUpperOctetText(codec.out)
        /\ \A i \in 1..MacOctets :
              16 * DigitValue(codec.out[3 * i - 2])
                  + DigitValue(codec.out[3 * i - 1]) = OctetOf(codec.value, i)

C18_Witness ==
    /\ codec.pc = "encoded" /\ codec.given = "text"
    /\ codec.text = JoinColon(<< <<"0", "0">>, <<"B", "0">>, <<"7", "D">>,
                                 <<"7", "D">>, <<"B", "0">>, <<"0", "0">> >>)
    /\ codec.out = codec.text

\* C18 (as claimed): for every text of six colon-separated two-digit
\* hexadecimal octets, decoding and encoding again gives the text back.
C18_RoundTripAnyHex ==
    (codec.pc = "encoded" /\ codec.given = "text"
        /\ IsHexOctetText(codec.text)) => codec.out = codec.text

\* C21 (as claimed): every call of a connect variant or of a poll ends with
\* a success or failure result for every provider outcome and buffer size:
\* no state is a panic, other than the constructor's (which the claim does not
\* list) and those that depend on the caller's context, not on a provider
\* outcome or buffer size: a blocking call made from inside a runtime, and an
\* async connect of the blocked double polled outside one.
C21_NoPanic == panicked => (pc = "new" \/ BlockOnPanicked \/ SleepPanicked)

Range(seq) == {seq[i] : i \in DOMAIN seq}

\* C22: the pairing stage is entered only when need_pairing is true; the
\* pairing flow (Custom, PairingRequested, PairAsync) is invoked only when in
\* addition the peer can be paired and is not yet paired; otherwise, the
\* calls before it succeeding, no pairing call is made and the pipeline
\* goes on to resolve-service.
C22_PairingOnlyWhenNeeded ==
    [][ pc = "await_fromid" =>
        \A f \in FromIdFailures, cp \in BOOLEAN, ip \in BOOLEAN :
          ResumeFromIdWith(f, cp, ip) =>
            LET flow == \/ pc' = "await_pair"
                        \/ (failedStage' = "Pair" /\ f \in PairDoCalls)
            IN  /\ "Pair" \in Range(stagesStarted') => call.need_pairing
                /\ flow => (call.need_pairing /\ cp /\ ~ip)
                /\ ( /\ f # "FromIdAsync.await"
                     /\ call.need_pairing => f \notin PairQueryCalls
                     /\ ~call.need_pairing \/ ~cp \/ ip ) =>
                        /\ ~flow
                        /\ failedStage' \in {"", "ResolveService"}
                        /\ stagesStarted'[Len(stagesStarted')] = "ResolveService"
      ]_vars

C22_Witness ==
    /\ impl = "winrt" /\ call.need_pairing /\ pc = "await_pair"
    /\ stagesStarted = <<"ResolveDevice", "Pair">>

\* C23 (as claimed): within one connection, the bytes of a native read that
\* completed successfully are delivered to the caller: a step other than a
\* connect that empties a read slot holding a completed read of n > 0 bytes,
\* without a panic or a buffer-extraction failure, is a poll_read returning
\* Ready with those n bytes.
C23_ReceivedBytesDelivered ==
    [][ ( /\ impl = "winrt" /\ pc = "idle" /\ pc' = "idle"
          /\ read_future.st = "ok" /\ read_future.n > 0
          /\ read_future' = None
          /\ ~panicked' /\ ~lastPoll'.failed )
        => lastPoll' = PollRecord("poll_read", "Ready", read_future.n, FALSE)
      ]_vars

\* C24: a connect attempt's first step, before any provider call, leaves no
\* socket of the session open, readiness false and both slots empty; while the
\* attempt runs, and when it ends with a failure or a timeout or is dropped by
\* its caller, readiness is false, the slots are empty and the socket held at
\* entry stays closed; and no poll on a session that is not ready with empty
\* slots undoes this.
C24_ResetsBeforeProviderAndKept ==
    [][ impl = "winrt" =>
        /\ (pc = "idle" /\ pc' = "start") =>
              /\ openSockets' = {}
              /\ stagesStarted' = <<>>
        /\ ( \/ (pc' \notin {"idle", "consumed"} /\ ~BlockOnPanicked')
             \/ callResult' \notin {NoResult, OkResult}
             \/ abandonedAt' # "" ) =>
              /\ ~ready'
              /\ read_future' = None /\ write_future' = None
              /\ openSockets' \subseteq
                    (IF "ConnectSocket" \in Range(stagesStarted')
                     THEN {socket'} ELSE {})
        /\ ( /\ pc = "idle" /\ pc' = "idle"
             /\ ~ready /\ read_future = None /\ write_future = None ) =>
              /\ ~ready'
              /\ read_future' = None /\ write_future' = None
      ]_vars

C24_Witness ==
    /\ impl = "winrt" /\ Returned /\ callResult = TimedOut(call.timeout)
    /\ call.timeout # NoTimeout
    /\ orphans.read = 1 /\ orphans.write = 1
    /\ ~ready /\ read_future = None /\ write_future = None

\* C25 (as claimed): whenever poll_write returns Ready(count), count is at
\* most the length of the slice passed to that same poll call.
C25_WriteCountWithinSlice ==
    [][ (lastPoll'.fn = "poll_write" /\ lastPoll'.res = "Ready") =>
        \A len \in Caps :
            WinrtSession_poll_write(len) => lastPoll'.n <= len
      ]_vars

\* C26: a non-empty slot holds an operation of the session's current socket,
\* put there while the session was ready; the socket is replaced, and a
\* connect attempt runs, only with both slots empty, so that a poll's result
\* never comes from an operation of an earlier connection.
C26_SlotsBelongToCurrentConnection ==
    [][ impl = "winrt" =>
        /\ read_future' # None => read_future'.sock = socket'
        /\ write_future' # None => write_future'.sock = socket'
        /\ (read_future = None /\ read_future' # None) => ready
        /\ (write_future = None /\ write_future' # None) => ready
        /\ (socket' # socket \/ (pc' # "idle" /\ ~BlockOnPanicked')) =>
              /\ read_future' = None /\ write_future' = None
        /\ (lastPoll'.res = "Ready" /\ lastPoll'.n > 0 /\ lastPoll' # lastPoll) =>
              /\ pc = "idle" /\ ready
              /\ lastPoll'.fn = "poll_read" =>
                    (read_future # None => read_future.sock = socket)
              /\ lastPoll'.fn = "poll_write" =>
                    (write_future # None => write_future.sock = socket)
      ]_vars

C26_Witness ==
    /\ impl = "winrt" /\ ready /\ socket = 0
    /\ read_future.st = "ok" /\ read_future.sock = 0
    /\ orphans.read = 1

====
